---- MODULE Spec2Model ----
(***************************************************************************)
(* The rating-prediction pipeline of                                       *)
(* 2-unsupervised-algorithms-in-machine-learning/module-4/review/Part 2    *)
(* (the notebook's single code cell): load the tables, sample user and     *)
(* movie ids, filter the training table, build the id->index maps and the  *)
(* dense rating matrix, factorize it, reconstruct the predictions, filter  *)
(* the test table, collect (actual, predicted) pairs and compute the RMSE. *)
(* One action per statement of the cell; the two for-loops advance one row *)
(* per step.  Library failures (pandas, numpy, sklearn) end the run in the *)
(* state pc = "failed" with the exception class in `error`.                *)
(***************************************************************************)
EXTENDS Integers, Sequences, FiniteSets

(* ---- bounds of the model ---- *)
MaxTrain == 3          \* rows of train.csv
MaxTest == 2           \* rows of test.csv under SpecEval
MaxProbe == 1          \* rows of test.csv under Spec
MaxPairs == 3          \* evaluated pairs under SpecRmse
MaxPred == 3           \* largest predicted rating under SpecRmse

UserIds == {1, 2, 3}   \* values of the uID column
MovieIds == {1, 2, 3}  \* values of the mID column
Ratings == {1, 2}      \* values of the rating column (a prefix of 1..5)
FactorVals == {1}      \* non-negative entries the solver returns
EvalMovieIds == {1, 2} \* values of the mID column under SpecEval

(* sample(500, ...) of lines 52-53, scaled down to the id sets above *)
SampleSize == 2
(* n_components=20 of line 69, scaled down *)
n_components == 1
(* the score is kept in fixed point: 1/ScoreScale, squared scale below *)
ScoreScale == 100

VARIABLES pc, error, train_data, test_data, selected_users, selected_movies,
          subset, u_index, m_index, u_map, m_map, matrix, writes, i,
          user_factors, movie_factors, reconstructed, eval_set, j,
          actual, predicted, score, output

vars == <<pc, error, train_data, test_data, selected_users, selected_movies,
          subset, u_index, m_index, u_map, m_map, matrix, writes, i,
          user_factors, movie_factors, reconstructed, eval_set, j,
          actual, predicted, score, output>>

(* ---- tables ---- *)
Row == [uID : UserIds, mID : MovieIds, rating : Ratings]

RECURSIVE SeqsUpTo(_, _)
SeqsUpTo(S, n) ==
    IF n = 0 THEN {<<>>}
    ELSE LET shorter == SeqsUpTo(S, n - 1)
         IN  shorter \cup {Append(s, x) : s \in {t \in shorter : Len(t) = n - 1}, x \in S}

Column(df, c) == [k \in 1..Len(df) |-> df[k][c]]

Values(s) == {s[k] : k \in 1..Len(s)}

(* Series.drop_duplicates() / Series.unique(): keep the first occurrence of  *)
(* each value, in order of appearance.                                      *)
RECURSIVE UniqueFrom(_, _, _)
UniqueFrom(s, k, acc) ==
    IF k > Len(s) THEN acc
    ELSE UniqueFrom(s, k + 1,
                    IF s[k] \in Values(acc) THEN acc ELSE Append(acc, s[k]))

(* an index that keeps repeated ids *)
UniqueKeepAll(s) == s

Unique(s) == UniqueFrom(s, 1, <<>>)

Min(a, b) == IF a <= b THEN a ELSE b

Drawn(population, n) ==
    {[err |-> "none", ids |-> S] :
        S \in {T \in SUBSET Values(population) : Cardinality(T) = n}}

(* a sampler that takes what there is when the population is too small *)
SampleTruncating(population, n) ==
    Drawn(population, Min(n, Len(population)))

(* Series.sample(n, random_state=42) without replacement: pandas raises     *)
(* ValueError when n exceeds the population.  The draw itself is the        *)
(* library's seeded generator; every n-subset is an outcome the model       *)
(* allows.                                                                  *)
Sample(population, n) ==
    IF n > Len(population)
    THEN {[err |-> "ValueError", ids |-> {}]}
    ELSE Drawn(population, n)

(* Series.isin(values) *)
isin(x, values) == x \in values

(* df[mask]: the rows whose mask entry is True, in the order of df *)
RECURSIVE BoolIndexFrom(_, _, _, _)
BoolIndexFrom(df, mask, k, acc) ==
    IF k > Len(df) THEN acc
    ELSE BoolIndexFrom(df, mask, k + 1,
                       IF mask[k] THEN Append(acc, df[k]) ELSE acc)

BoolIndex(df, mask) == BoolIndexFrom(df, mask, 1, <<>>)

(* a mask that forgets the movie ids *)
TrainMaskUsersOnly(df, users, movies) ==
    [k \in 1..Len(df) |-> isin(df[k].uID, users)]

(* the mask of lines 55-57 *)
TrainMask(df, users, movies) ==
    [k \in 1..Len(df) |-> isin(df[k].uID, users) /\ isin(df[k].mID, movies)]

(* a test mask that forgets the movie ids *)
TestMaskUsersOnly(df, uidx, midx) ==
    [k \in 1..Len(df) |-> isin(df[k].uID, Values(uidx))]

(* a test mask over the sampled ids instead of the ids of the subset *)
TestMaskSampled(df, uidx, midx) ==
    [k \in 1..Len(df) |->
        isin(df[k].uID, selected_users) /\ isin(df[k].mID, selected_movies)]

(* the mask of lines 74-76 *)
TestMask(df, uidx, midx) ==
    [k \in 1..Len(df) |->
        isin(df[k].uID, Values(uidx)) /\ isin(df[k].mID, Values(midx))]

(* {u: i for i, u in enumerate(index)}: later entries overwrite earlier     *)
(* ones for a repeated key.                                                 *)
Enumerate(index) ==
    [u \in Values(index) |->
        (CHOOSE k \in 1..Len(index) :
            index[k] = u /\ \A l \in (k + 1)..Len(index) : index[l] # u) - 1]

(* ---- dense matrices: a shape and the cells, 0-based ---- *)
Cells(nr, nc) == (0..(nr - 1)) \X (0..(nc - 1))

Zeros(nr, nc) == [shape |-> <<nr, nc>>, cell |-> [c \in Cells(nr, nc) |-> 0]]

InShape(m, r, c) == r \in 0..(m.shape[1] - 1) /\ c \in 0..(m.shape[2] - 1)

(* an assignment that keeps a cell already written *)
SetCellOnce(m, r, c, v) ==
    IF m.cell[<<r, c>>] # 0 THEN m ELSE [m EXCEPT !.cell[<<r, c>>] = v]

(* matrix[r, c] = v *)
SetCell(m, r, c, v) == [m EXCEPT !.cell[<<r, c>>] = v]

(* a loop that skips every other row *)
SkipRow(k) == k + 2

(* the for-loop's step to the next row of the table *)
NextRow(k) == k + 1

(* The variables before line 52 has run; the tables are set by the Inits. *)
Blank ==
    /\ error = "none"
    /\ selected_users = {}
    /\ selected_movies = {}
    /\ subset = <<>>
    /\ u_index = <<>>
    /\ m_index = <<>>
    /\ u_map = <<>>
    /\ m_map = <<>>
    /\ matrix = Zeros(0, 0)
    /\ writes = <<>>
    /\ i = 0
    /\ user_factors = Zeros(0, 0)
    /\ movie_factors = Zeros(0, 0)
    /\ reconstructed = Zeros(0, 0)
    /\ eval_set = <<>>
    /\ j = 0
    /\ score = -1
    /\ output = <<>>

(* lines 47-50: every training table, a short test table *)
Init ==
    /\ pc = "sample_users"
    /\ train_data \in SeqsUpTo(Row, MaxTrain)
    /\ test_data \in SeqsUpTo([uID : UserIds, mID : MovieIds, rating : {1}], MaxProbe)
    /\ actual = <<>>
    /\ predicted = <<>>
    /\ Blank

(* lines 47-50: training tables over fewer values, every test table *)
InitEval ==
    /\ pc = "sample_users"
    /\ train_data \in SeqsUpTo([uID : UserIds, mID : EvalMovieIds, rating : {1}], MaxTrain)
    /\ test_data \in SeqsUpTo([uID : UserIds, mID : EvalMovieIds, rating : Ratings], MaxTest)
    /\ actual = <<>>
    /\ predicted = <<>>
    /\ Blank

(* line 83 as a function of the two lists: the lists the loop of lines     *)
(* 79-81 can leave are drawn directly, the other variables play no part.   *)
InitRmse ==
    /\ pc = "score"
    /\ train_data = <<>>
    /\ test_data = <<>>
    /\ \E n \in 0..MaxPairs :
          /\ actual \in [1..n -> Ratings]
          /\ predicted \in [1..n -> 0..MaxPred]
    /\ Blank

Fail(e) == pc' = "failed" /\ error' = e

(* line 52 *)
SampleUsers ==
    /\ pc = "sample_users"
    /\ \E o \in Sample(Unique(Column(train_data, "uID")), SampleSize) :
          IF o.err = "none"
          THEN /\ selected_users' = o.ids
               /\ pc' = "sample_movies"
               /\ error' = error
          ELSE /\ Fail(o.err)
               /\ selected_users' = selected_users
    /\ UNCHANGED <<train_data, test_data, selected_movies, subset, u_index,
                   m_index, u_map, m_map, matrix, writes, i, user_factors,
                   movie_factors, reconstructed, eval_set, j, actual,
                   predicted, score, output>>

(* line 53 *)
SampleMovies ==
    /\ pc = "sample_movies"
    /\ \E o \in Sample(Unique(Column(train_data, "mID")), SampleSize) :
          IF o.err = "none"
          THEN /\ selected_movies' = o.ids
               /\ pc' = "subset"
               /\ error' = error
          ELSE /\ Fail(o.err)
               /\ selected_movies' = selected_movies
    /\ UNCHANGED <<train_data, test_data, selected_users, subset, u_index,
                   m_index, u_map, m_map, matrix, writes, i, user_factors,
                   movie_factors, reconstructed, eval_set, j, actual,
                   predicted, score, output>>

(* lines 55-57 *)
FilterTrain ==
    /\ pc = "subset"
    /\ subset' = BoolIndex(train_data, TrainMask(train_data, selected_users, selected_movies))
    /\ pc' = "index"
    /\ UNCHANGED <<error, train_data, test_data, selected_users,
                   selected_movies, u_index, m_index, u_map, m_map, matrix,
                   writes, i, user_factors, movie_factors, reconstructed,
                   eval_set, j, actual, predicted, score, output>>

(* lines 59-63 *)
BuildMaps ==
    /\ pc = "index"
    /\ u_index' = Unique(Column(subset, "uID"))
    /\ m_index' = Unique(Column(subset, "mID"))
    /\ u_map' = Enumerate(u_index')
    /\ m_map' = Enumerate(m_index')
    /\ pc' = "zeros"
    /\ UNCHANGED <<error, train_data, test_data, selected_users,
                   selected_movies, subset, matrix, writes, i, user_factors,
                   movie_factors, reconstructed, eval_set, j, actual,
                   predicted, score, output>>

(* line 65; `writes` counts the assignments line 67 makes to each cell *)
AllocMatrix ==
    /\ pc = "zeros"
    /\ matrix' = Zeros(Len(u_index), Len(m_index))
    /\ writes' = [c \in Cells(Len(u_index), Len(m_index)) |-> 0]
    /\ i' = 1
    /\ pc' = IF Len(subset) >= 1 THEN "fill" ELSE "nmf"
    /\ UNCHANGED <<error, train_data, test_data, selected_users,
                   selected_movies, subset, u_index, m_index, u_map, m_map,
                   user_factors, movie_factors, reconstructed, eval_set, j,
                   actual, predicted, score, output>>

(* lines 66-67, one row of the subset per step *)
FillRow ==
    /\ pc = "fill"
    /\ i <= Len(subset)
    /\ LET row == subset[i]
       IN  IF row.uID \notin DOMAIN u_map \/ row.mID \notin DOMAIN m_map
           THEN /\ Fail("KeyError")
                /\ UNCHANGED <<matrix, writes, i>>
           ELSE LET r == u_map[row.uID]
                    c == m_map[row.mID]
                IN  IF ~InShape(matrix, r, c)
                    THEN /\ Fail("IndexError")
                         /\ UNCHANGED <<matrix, writes, i>>
                    ELSE /\ matrix' = SetCell(matrix, r, c, row.rating)
                         /\ writes' = [writes EXCEPT ![<<r, c>>] = @ + 1]
                         /\ i' = NextRow(i)
                         /\ pc' = IF i' <= Len(subset) THEN "fill" ELSE "nmf"
                         /\ error' = error
    /\ UNCHANGED <<train_data, test_data, selected_users, selected_movies,
                   subset, u_index, m_index, u_map, m_map, user_factors,
                   movie_factors, reconstructed, eval_set, j, actual,
                   predicted, score, output>>

(* ---- lines 69-72: the solver is a library; its result is any pair of     *)
(* non-negative factor matrices of the right shapes.  check_array rejects  *)
(* an input with no rows or no columns with a ValueError.                   *)
FactorMatrices(nr, nc) ==
    {[shape |-> <<nr, nc>>, cell |-> f] : f \in [Cells(nr, nc) -> FactorVals]}

RECURSIVE DotSum(_, _, _, _, _)
DotSum(a, b, r, c, k) ==
    IF k < 0 THEN 0
    ELSE a.cell[<<r, k>>] * b.cell[<<k, c>>] + DotSum(a, b, r, c, k - 1)

(* np.dot(a, b) *)
Dot(a, b) ==
    [shape |-> <<a.shape[1], b.shape[2]>>,
     cell |-> [rc \in Cells(a.shape[1], b.shape[2]) |->
                  DotSum(a, b, rc[1], rc[2], a.shape[2] - 1)]]

Factorize ==
    /\ pc = "nmf"
    /\ IF matrix.shape[1] = 0 \/ matrix.shape[2] = 0
       THEN /\ Fail("ValueError")
            /\ UNCHANGED <<user_factors, movie_factors, reconstructed>>
       ELSE /\ user_factors' \in FactorMatrices(matrix.shape[1], n_components)
            /\ movie_factors' \in FactorMatrices(n_components, matrix.shape[2])
            /\ reconstructed' = Dot(user_factors', movie_factors')
            /\ pc' = "eval_set"
            /\ error' = error
    /\ UNCHANGED <<train_data, test_data, selected_users, selected_movies,
                   subset, u_index, m_index, u_map, m_map, matrix, writes, i,
                   eval_set, j, actual, predicted, score, output>>

(* lines 74-78 *)
FilterTest ==
    /\ pc = "eval_set"
    /\ eval_set' = BoolIndex(test_data, TestMask(test_data, u_index, m_index))
    /\ actual' = <<>>
    /\ predicted' = <<>>
    /\ j' = 1
    /\ pc' = IF Len(eval_set') >= 1 THEN "loop" ELSE "score"
    /\ UNCHANGED <<error, train_data, test_data, selected_users,
                   selected_movies, subset, u_index, m_index, u_map, m_map,
                   matrix, writes, i, user_factors, movie_factors,
                   reconstructed, score, output>>

(* lines 79-81, one row of eval_set per step *)
EvalRow ==
    /\ pc = "loop"
    /\ j <= Len(eval_set)
    /\ LET row == eval_set[j]
       IN  IF row.uID \notin DOMAIN u_map \/ row.mID \notin DOMAIN m_map
           THEN /\ Fail("KeyError")
                /\ UNCHANGED <<actual, predicted, j>>
           ELSE LET r == u_map[row.uID]
                    c == m_map[row.mID]
                IN  IF ~InShape(reconstructed, r, c)
                    THEN /\ Fail("IndexError")
                         /\ UNCHANGED <<actual, predicted, j>>
                    ELSE /\ actual' = Append(actual, row.rating)
                         /\ predicted' = Append(predicted, reconstructed.cell[<<r, c>>])
                         /\ j' = NextRow(j)
                         /\ pc' = IF j' <= Len(eval_set) THEN "loop" ELSE "score"
                         /\ error' = error
    /\ UNCHANGED <<train_data, test_data, selected_users, selected_movies,
                   subset, u_index, m_index, u_map, m_map, matrix, writes, i,
                   user_factors, movie_factors, reconstructed, eval_set,
                   score, output>>

(* ---- line 83: np.sqrt(mean_squared_error(actual, predicted)) ----        *)
(* mean_squared_error validates its arguments with check_array, which      *)
(* raises ValueError for an array with no samples.                          *)
(* a validation that lets an empty array through *)
CheckArrayAny(y) == TRUE

CheckArray(y) == Len(y) >= 1

(* the float nan, outside the non-negative grid of scores; -1 is "no value" *)
NaN == 0 - 2

(* squared error without the square *)
SignedErr(a, p) == a - p

SqErr(a, p) == (a - p) * (a - p)

RECURSIVE SumSqErr(_, _, _)
SumSqErr(ys, ps, k) ==
    IF k = 0 THEN 0 ELSE SqErr(ys[k], ps[k]) + SumSqErr(ys, ps, k - 1)

(* The mean in fixed point, in units of 1/ScoreScale^2.  The grid is finer *)
(* than 1/n for every n the model reaches, as binary64 is for the ratings: *)
(* a non-zero sum of squares never rounds to a zero mean.                   *)
(* np.average of no values is nan (after check_array has let them through) *)
MeanSquaredError(ys, ps) ==
    IF Len(ys) = 0 THEN NaN
    ELSE (SumSqErr(ys, ps, Len(ys)) * ScoreScale * ScoreScale) \div Len(ys)

(* np.sqrt on the fixed-point grid: the result is in units of 1/ScoreScale *)
RECURSIVE SqrtIn(_, _, _)
SqrtIn(x, lo, hi) ==
    IF hi - lo <= 1 THEN lo
    ELSE LET mid == (lo + hi) \div 2
         IN  IF mid * mid <= x THEN SqrtIn(x, mid, hi) ELSE SqrtIn(x, lo, mid)

Sqrt(x) == IF x < 0 THEN NaN ELSE SqrtIn(x, 0, x + 1)

Score ==
    /\ pc = "score"
    /\ IF CheckArray(actual) /\ CheckArray(predicted)
       THEN /\ score' = Sqrt(MeanSquaredError(actual, predicted))
            /\ pc' = "print"
            /\ error' = error
       ELSE /\ Fail("ValueError")
            /\ score' = score
    /\ UNCHANGED <<train_data, test_data, selected_users, selected_movies,
                   subset, u_index, m_index, u_map, m_map, matrix, writes, i,
                   user_factors, movie_factors, reconstructed, eval_set, j,
                   actual, predicted, output>>

(* line 84 *)
PrintScore ==
    /\ pc = "print"
    /\ output' = <<"RMSE", score>>
    /\ pc' = "done"
    /\ UNCHANGED <<error, train_data, test_data, selected_users,
                   selected_movies, subset, u_index, m_index, u_map, m_map,
                   matrix, writes, i, user_factors, movie_factors,
                   reconstructed, eval_set, j, actual, predicted, score>>
Next ==
    \/ SampleUsers
    \/ SampleMovies
    \/ FilterTrain
    \/ BuildMaps
    \/ AllocMatrix
    \/ FillRow
    \/ Factorize
    \/ FilterTest
    \/ EvalRow
    \/ Score
    \/ PrintScore

Spec == Init /\ [][Next]_vars

SpecEval == InitEval /\ [][Next]_vars

NextRmse ==
    \/ Score
    \/ PrintScore

SpecRmse == InitRmse /\ [][NextRmse]_vars

(***************************************************************************)
(* Properties                                                              *)
(***************************************************************************)
Count(df, x) == Cardinality({k \in 1..Len(df) : df[k] = x})

SubsetUsers == {subset[k].uID : k \in 1..Len(subset)}
SubsetMovies == {subset[k].mID : k \in 1..Len(subset)}

(* the rows of the subset that carry the pair (u, m) *)
PairRows(u, m) == {k \in 1..Len(subset) : subset[k].uID = u /\ subset[k].mID = m}

Last(S) == CHOOSE k \in S : \A l \in S : l <= k
First(S) == CHOOSE k \in S : \A l \in S : k <= l

(* how far the run has come *)
SubsetBuilt ==
    \/ pc \in {"index", "zeros", "fill", "nmf", "eval_set", "loop", "score",
               "print", "done"}
    \/ pc = "failed" /\ i >= 1

MapsBuilt == SubsetBuilt /\ pc # "index"

FillStarted == i >= 1

FillFinished == i >= 1 /\ i > Len(subset)

FilterDone ==
    \/ pc \in {"loop", "score", "print", "done"}
    \/ pc = "failed" /\ j >= 1

(* C1: once the fill loop has run over the whole subset, the cell of every *)
(* (user, movie) pair of the subset holds the rating of the last row with  *)
(* that pair, and every cell whose pair does not occur in the subset is 0. *)
C1_LastWriteWins ==
    FillFinished =>
        /\ \A k \in 1..Len(subset) :
              LET u == subset[k].uID
                  m == subset[k].mID
              IN  /\ u \in DOMAIN u_map
                  /\ m \in DOMAIN m_map
                  /\ <<u_map[u], m_map[m]>> \in DOMAIN matrix.cell
                  /\ matrix.cell[<<u_map[u], m_map[m]>>]
                        = subset[Last(PairRows(u, m))].rating
        /\ \A rc \in DOMAIN matrix.cell :
              (rc[1] + 1 \in DOMAIN u_index /\ rc[2] + 1 \in DOMAIN m_index
                 /\ PairRows(u_index[rc[1] + 1], m_index[rc[2] + 1]) = {})
              => matrix.cell[rc] = 0

(* a pair written twice with different ratings, next to a cell never written *)
C1_Witness ==
    /\ pc = "nmf"
    /\ FillFinished
    /\ \E k, l \in 1..Len(subset) :
          /\ k < l
          /\ subset[k].uID = subset[l].uID
          /\ subset[k].mID = subset[l].mID
          /\ subset[k].rating # subset[l].rating
    /\ \E rc \in DOMAIN matrix.cell :
          PairRows(u_index[rc[1] + 1], m_index[rc[2] + 1]) = {}

(* C5: u_map and m_map are bijections from the distinct user and movie ids *)
(* of the subset onto 0..U-1 and 0..M-1, numbered in first-seen order.     *)
FirstSeen(col, x) == First({k \in 1..Len(subset) : subset[k][col] = x})

IsFirstSeenBijection(map, ids, col) ==
    /\ DOMAIN map = ids
    /\ {map[x] : x \in ids} = 0..(Cardinality(ids) - 1)
    /\ \A x, y \in ids : x # y => map[x] # map[y]
    /\ \A x, y \in ids : (map[x] < map[y]) <=> (FirstSeen(col, x) < FirstSeen(col, y))

C5_MapsBijective ==
    MapsBuilt =>
        /\ IsFirstSeenBijection(u_map, SubsetUsers, "uID")
        /\ IsFirstSeenBijection(m_map, SubsetMovies, "mID")
        /\ Len(u_index) = Cardinality(SubsetUsers)
        /\ Len(m_index) = Cardinality(SubsetMovies)

(* two users and two movies over three rows, the larger user id seen first *)
C5_Witness ==
    /\ MapsBuilt
    /\ Len(subset) = 3
    /\ Cardinality(SubsetUsers) = 2
    /\ Cardinality(SubsetMovies) = 2
    /\ \E x, y \in SubsetUsers : x > y /\ u_map[x] < u_map[y]

(* C6: the subset holds exactly the training rows whose user id and movie  *)
(* id are both sampled, each as often as the training table holds it.      *)
C6_SubsetExact ==
    SubsetBuilt =>
        \A x \in Row :
            Count(subset, x) =
                IF x.uID \in selected_users /\ x.mID \in selected_movies
                THEN Count(train_data, x) ELSE 0

(* a row kept, a row left out for its user and a row left out for its movie *)
C6_Witness ==
    /\ SubsetBuilt
    /\ Len(subset) >= 1
    /\ \E k \in 1..Len(train_data) :
          train_data[k].uID \notin selected_users /\ train_data[k].mID \in selected_movies
    /\ \E k \in 1..Len(train_data) :
          train_data[k].uID \in selected_users /\ train_data[k].mID \notin selected_movies

(* C7 as stated: every distinct pair of the subset is written exactly once *)
C7_OneWritePerPair ==
    FillFinished =>
        \A k \in 1..Len(subset) :
            writes[<<u_map[subset[k].uID], m_map[subset[k].mID]>>] = 1

(* C7: every row of the subset the loop has passed is written exactly once, *)
(* so a pair is written as often as the subset repeats it: exactly once if *)
(* and only if a single row carries it.                                    *)
C7_OneWritePerRow ==
    FillStarted =>
        /\ \A k \in 1..Len(subset) :
              k < i => LET u == subset[k].uID
                           m == subset[k].mID
                       IN  writes[<<u_map[u], m_map[m]>>]
                              = Cardinality({l \in PairRows(u, m) : l < i})
        /\ \A rc \in DOMAIN writes :
              PairRows(u_index[rc[1] + 1], m_index[rc[2] + 1]) = {} => writes[rc] = 0
        /\ i <= Len(subset) + 1

(* a pair written twice and a pair written once *)
C7_Witness ==
    /\ FillFinished
    /\ \E rc \in DOMAIN writes : writes[rc] = 2
    /\ \E rc \in DOMAIN writes : writes[rc] = 1

(* C4 as stated: too few distinct ids end the run in InsufficientDataError *)
DistinctUsers == {train_data[k].uID : k \in 1..Len(train_data)}
DistinctMovies == {train_data[k].mID : k \in 1..Len(train_data)}

Insufficient ==
    \/ Cardinality(DistinctUsers) < SampleSize
    \/ Cardinality(DistinctMovies) < SampleSize

NothingBuilt ==
    /\ subset = <<>>
    /\ u_map = <<>>
    /\ m_map = <<>>
    /\ matrix = Zeros(0, 0)
    /\ i = 0
    /\ selected_movies = {}
    /\ Cardinality(selected_users) \in {0, SampleSize}

C4_InsufficientDataError ==
    (Insufficient /\ pc \notin {"sample_users", "sample_movies"}) =>
        pc = "failed" /\ error = "InsufficientDataError" /\ NothingBuilt

(* C4: with fewer distinct user ids or movie ids than the sample size the  *)
(* run never gets past line 53: it ends in the library's ValueError, with  *)
(* no subset, map or matrix built and no smaller sample taken.             *)
C4_SampleFails ==
    (Insufficient /\ pc \notin {"sample_users", "sample_movies"}) =>
        pc = "failed" /\ error = "ValueError" /\ NothingBuilt

(* enough users, too few movies: the run fails at line 53 *)
C4_Witness ==
    /\ pc = "failed"
    /\ Cardinality(DistinctUsers) >= SampleSize
    /\ Cardinality(DistinctMovies) < SampleSize
    /\ Cardinality(selected_users) = SampleSize

(* the test rows whose ids both have an entry in the maps *)
Known(row) == row.uID \in DOMAIN u_map /\ row.mID \in DOMAIN m_map

Survivors == {k \in 1..Len(test_data) : Known(test_data[k])}
Dropped == {k \in 1..Len(test_data) : ~Known(test_data[k])}

(* C2: the evaluation set is exactly the test rows whose user id and movie *)
(* id both have an entry in the maps; each of them gives one (actual,      *)
(* predicted) pair, the others are dropped without an error, and retained  *)
(* plus dropped rows are the test rows.                                    *)
C2_EvalSetExact ==
    FilterDone =>
        /\ \A x \in Row :
              Count(eval_set, x) = IF Known(x) THEN Count(test_data, x) ELSE 0
        /\ Len(eval_set) = Cardinality(Survivors)
        /\ Len(eval_set) + Cardinality(Dropped) = Len(test_data)
        /\ Len(actual) = Len(predicted)
        /\ Len(actual) = Min(j, Len(eval_set) + 1) - 1
        /\ \A k \in 1..Len(actual) : actual[k] = eval_set[k].rating
        /\ (pc \in {"score", "print", "done"} => Len(actual) = Len(eval_set))
        /\ error \notin {"KeyError", "IndexError"}
        /\ (Len(eval_set) >= 1 => pc # "failed")

(* one test row kept and one dropped for its unseen user; the run finishes *)
C2_Witness ==
    /\ pc = "done"
    /\ Len(test_data) = 2
    /\ Len(eval_set) = 1
    /\ Len(actual) = 1
    /\ \E k \in Dropped : test_data[k].uID \notin DOMAIN u_map

(* no test row has both ids in the index space of the subset *)
NoSurvivor ==
    /\ MapsBuilt
    /\ \A k \in 1..Len(test_data) :
          ~(test_data[k].uID \in SubsetUsers /\ test_data[k].mID \in SubsetMovies)

NoScore == score = 0 - 1 /\ output = <<>> /\ pc \notin {"print", "done"}

(* C3 as stated: an empty evaluation set ends in EmptyEvaluationSetError *)
C3_EmptyEvaluationSetError ==
    (NoSurvivor /\ FilterDone /\ pc # "score") =>
        pc = "failed" /\ error = "EmptyEvaluationSetError" /\ NoScore

(* C3: when no test row survives the id filter the run produces and prints *)
(* no RMSE (no NaN either): after the filter it ends in the ValueError     *)
(* that mean_squared_error raises for empty input.                         *)
C3_EmptyFails ==
    NoSurvivor =>
        /\ NoScore
        /\ (pc = "failed" => error = "ValueError")
        /\ ((FilterDone /\ pc # "score") => pc = "failed")

(* test rows there were, none survived, line 83 raised *)
C3_Witness ==
    /\ pc = "failed"
    /\ error = "ValueError"
    /\ j >= 1
    /\ Len(test_data) >= 1
    /\ eval_set = <<>>

(* C10: every lookup of the evaluation loop is defined: each retained row  *)
(* has a key in u_map and in m_map, and its index pair lies inside the     *)
(* reconstructed matrix, which has the shape of the rating matrix.         *)
C10_LookupsDefined ==
    /\ error \notin {"KeyError", "IndexError"}
    /\ FilterDone =>
          /\ reconstructed.shape = matrix.shape
          /\ DOMAIN reconstructed.cell = DOMAIN matrix.cell
          /\ \A k \in 1..Len(eval_set) :
                /\ eval_set[k].uID \in DOMAIN u_map
                /\ eval_set[k].mID \in DOMAIN m_map
                /\ InShape(reconstructed, u_map[eval_set[k].uID], m_map[eval_set[k].mID])
                /\ <<u_map[eval_set[k].uID], m_map[eval_set[k].mID]>>
                      \in DOMAIN reconstructed.cell

(* a sampled movie that no row of the subset carries, and a lookup made *)
C10_Witness ==
    /\ pc = "done"
    /\ Len(predicted) >= 1
    /\ selected_movies # SubsetMovies
    /\ Len(eval_set) < Len(test_data)
    /\ matrix.shape = <<2, 1>>

(* C8: for a non-empty list of pairs the RMSE is at least 0, and it is 0   *)
(* exactly when every predicted value equals the actual one.               *)
C8_RmseSign ==
    (pc \in {"print", "done"} /\ Len(actual) >= 1) =>
        /\ score >= 0
        /\ (score = 0 <=> \A k \in 1..Len(actual) : actual[k] = predicted[k])

(* errors of opposite sign next to an exact prediction: the RMSE is not 0 *)
C8_Witness ==
    /\ pc = "print"
    /\ Len(actual) = 3
    /\ score > 0
    /\ \E k \in 1..3 : actual[k] = predicted[k]
    /\ \E k, l \in 1..3 : actual[k] - predicted[k] = predicted[l] - actual[l]
                           /\ actual[k] # predicted[k]
====
